---------------------------- MODULE Spec2Model ----------------------------
(***************************************************************************)
(* A model of src/platform.ts: the os-release parser                      *)
(* (LinuxDistribution.FromReleaseInfo), the probing of the two os-release  *)
(* paths (LinuxDistribution.GetCurrent), the runtime-id resolution         *)
(* (PlatformInformation.getRuntimeId and its two lookup tables), the       *)
(* PlatformInformation constructor and the asynchronous detection          *)
(* PlatformInformation.GetCurrent.                                         *)
(*                                                                         *)
(* Representation of JavaScript values:                                    *)
(*  - a string the code slices, trims, splits or tests by prefix (file     *)
(*    text, lines, keys, values, names, versions, architectures) is a      *)
(*    sequence of one-character strings;                                   *)
(*  - a string the code only compares and passes on (the platform, the     *)
(*    runtime ids) is a TLA+ string;                                       *)
(*  - null/undefined is NullStr for a string, NullArr for a string[],      *)
(*    NullDist for a LinuxDistribution and NullRid for a runtime id.       *)
(***************************************************************************)
EXTENDS Integers, Sequences, FiniteSets, TLC

VARIABLES
    \* FromReleaseInfo: its two arguments, the position of the call, its result
    releaseInfo, eol, parsePc, parsed,
    \* new PlatformInformation(...): its four arguments, the position, the object
    \* and what the call of getRuntimeId inside it did
    argPlatform, argArchitecture, argDistribution, argFallback, newPc, obj, resolution,
    \* PlatformInformation.GetCurrent: the host, the two promises, the file
    \* probing, the promise returned to the caller and the value it resolves to
    hostPlatform, env, fallbackProvider, call, archPromise, distPromise,
    readPending, reads, events, info

parseVars == <<releaseInfo, eol, parsePc, parsed>>
newVars == <<argPlatform, argArchitecture, argDistribution, argFallback, newPc, obj,
             resolution>>
detectVars == <<hostPlatform, env, fallbackProvider, call, archPromise, distPromise,
                readPending, reads, events, info>>
vars == <<parseVars, newVars, detectVars>>

---------------------------------------------------------------------------
(* Bounds of the model *)

\* number of lines of a generated os-release text
MaxLines == 4
\* length of a generated ID_LIKE list
MaxIdLike == 2

---------------------------------------------------------------------------
(* JavaScript values *)

NullStr == <<"null">>
NullArr == <<NullStr>>
NullDist == [isNull |-> TRUE]
NullRid == "<null>"

unknown == <<"u","n","k","n","o","w","n">>

LF == <<"\n">>
CRLF == <<"\r","\n">>

\* String.prototype.trim's white space, as far as the model's alphabet goes
IsWhitespace(c) == c \in {" ", "\t", "\n", "\r"}

RECURSIVE TrimStart(_)
TrimStart(s) ==
    IF s = <<>> THEN s
    ELSE IF IsWhitespace(Head(s)) THEN TrimStart(Tail(s)) ELSE s

RECURSIVE TrimEnd(_)
TrimEnd(s) ==
    IF s = <<>> THEN s
    ELSE IF IsWhitespace(s[Len(s)]) THEN TrimEnd(SubSeq(s, 1, Len(s) - 1)) ELSE s

Trim(s) == TrimEnd(TrimStart(s))

StartsWith(s, p) == Len(s) >= Len(p) /\ SubSeq(s, 1, Len(p)) = p

EndsWith(s, p) == Len(s) >= Len(p) /\ SubSeq(s, Len(s) - Len(p) + 1, Len(s)) = p

\* String.prototype.indexOf for a non-empty needle: 0-based, -1 when absent
IndexOf(s, p) ==
    LET at(i) == SubSeq(s, i, i + Len(p) - 1) = p
        S == {i \in 1..(Len(s) - Len(p) + 1) : at(i)}
    IN  IF S = {} THEN -1 ELSE (CHOOSE i \in S : \A j \in S : i <= j) - 1

\* String.prototype.substring(from, to) and substring(from): 0-based, to exclusive
Substring(s, from, to) == SubSeq(s, from + 1, to)
SubstringFrom(s, from) == SubSeq(s, from + 1, Len(s))

\* String.prototype.split(sep): an empty separator splits into characters
RECURSIVE Split(_, _)
Split(s, sep) ==
    IF sep = <<>> THEN [i \in 1..Len(s) |-> <<s[i]>>]
    ELSE LET i == IndexOf(s, sep)
         IN  IF i < 0 THEN <<s>>
             ELSE <<Substring(s, 0, i)>> \o Split(SubstringFrom(s, i + Len(sep)), sep)

---------------------------------------------------------------------------
(* LinuxDistribution *)

LinuxDistribution(name, version, idLike) ==
    [name |-> name, version |-> version, idLike |-> idLike]

KEY_ID == <<"I","D">>
KEY_VERSION_ID == <<"V","E","R","S","I","O","N","_","I","D">>
KEY_ID_LIKE == <<"I","D","_","L","I","K","E">>

\* the key of a trimmed line that holds an '='
KeyOf(line) == Substring(line, 0, IndexOf(line, <<"=">>))

\* the value of a trimmed line that holds an '=', its double quotes stripped
ValueOf(line) ==
    LET value == SubstringFrom(line, IndexOf(line, <<"=">>) + 1)
    IN  IF Len(value) > 1 /\ StartsWith(value, <<"\"">>) /\ EndsWith(value, <<"\"">>)
        THEN Substring(value, 1, Len(value) - 1)
        ELSE value

\* the condition of the loop's break
ScanBreak(name, version, idLike) ==
    name # unknown /\ version # unknown /\ idLike # NullArr

\* one iteration of the loop over the lines: acc holds name, version, idLike and
\* whether the iteration ended in the break
ScanLine(acc, rawLine) ==
    LET line == Trim(rawLine)
    IN  IF IndexOf(line, <<"=">>) >= 0
        THEN LET key == KeyOf(line)
                 value == ValueOf(line)
                 name == IF key = KEY_ID THEN value ELSE acc.name
                 version == IF key # KEY_ID /\ key = KEY_VERSION_ID
                            THEN value ELSE acc.version
                 idLike == IF key # KEY_ID /\ key # KEY_VERSION_ID /\ key = KEY_ID_LIKE
                           THEN Split(value, <<" ">>) ELSE acc.idLike
             IN  [name |-> name, version |-> version, idLike |-> idLike,
                  broke |-> ScanBreak(name, version, idLike)]
        ELSE [acc EXCEPT !.broke = FALSE]

\* the loop from line i on; scanned counts the lines the loop has visited
RECURSIVE ScanLines(_, _, _)
ScanLines(acc, lines, i) ==
    IF i > Len(lines)
    THEN [dist |-> LinuxDistribution(acc.name, acc.version, acc.idLike), scanned |-> i - 1]
    ELSE LET a == ScanLine(acc, lines[i])
         IN  IF a.broke
             THEN [dist |-> LinuxDistribution(a.name, a.version, a.idLike), scanned |-> i]
             ELSE ScanLines(a, lines, i + 1)

\* FromReleaseInfo with the number of lines its loop visited
ScanReleaseInfo(text, sep) ==
    ScanLines([name |-> unknown, version |-> unknown, idLike |-> NullArr, broke |-> FALSE],
              Split(text, sep), 1)

FromReleaseInfo(text, sep) == ScanReleaseInfo(text, sep).dist

---------------------------------------------------------------------------
(* LinuxRuntimeId and the two lookup tables *)

unknown_distribution == "unknown_distribution"
unknown_version == "unknown_version"
centos_7 == "centos.7-x64"
debian_8 == "debian.8-x64"
fedora_23 == "fedora.23-x64"
fedora_24 == "fedora.24-x64"
opensuse_13_2 == "opensuse.13.2-x64"
opensuse_42_1 == "opensuse.42.1-x64"
rhel_7 == "rhel.7-x64"
ubuntu_14_04 == "ubuntu.14.04-x64"
ubuntu_16_04 == "ubuntu.16.04-x64"
ubuntu_16_10 == "ubuntu.16.10-x64"

N_ubuntu == <<"u","b","u","n","t","u">>
N_linuxmint == <<"l","i","n","u","x","m","i","n","t">>
N_centos == <<"c","e","n","t","o","s">>
N_ol == <<"o","l">>
N_fedora == <<"f","e","d","o","r","a">>
N_opensuse == <<"o","p","e","n","s","u","s","e">>
N_rhel == <<"r","h","e","l">>
N_debian == <<"d","e","b","i","a","n">>
N_Zorin_OS == <<"Z","o","r","i","n"," ","O","S">>
N_zorin == <<"z","o","r","i","n">>
N_elementary == <<"e","l","e","m","e","n","t","a","r","y">>
N_elementary_OS == <<"e","l","e","m","e","n","t","a","r","y"," ","O","S">>
N_galliumos == <<"g","a","l","l","i","u","m","o","s">>

V_14_04 == <<"1","4",".","0","4">>
V_16_04 == <<"1","6",".","0","4">>
V_16_10 == <<"1","6",".","1","0">>
V_23 == <<"2","3">>
V_24 == <<"2","4">>
V_12 == <<"1","2">>

A_x86 == <<"x","8","6">>
A_x86_64 == <<"x","8","6","_","6","4">>

getExactRuntimeId(distributionName, distributionVersion) ==
    CASE distributionName = N_ubuntu ->
            IF distributionVersion = V_14_04 THEN ubuntu_14_04
            ELSE IF distributionVersion = V_16_04 THEN ubuntu_16_04
            ELSE IF distributionVersion = V_16_10 THEN ubuntu_16_10
            ELSE unknown_version
      [] distributionName = N_linuxmint ->
            IF StartsWith(distributionVersion, <<"1","8">>) THEN ubuntu_16_04
            ELSE unknown_version
      [] distributionName \in {N_centos, N_ol} -> centos_7
      [] distributionName = N_fedora ->
            IF distributionVersion = V_23 THEN fedora_23
            ELSE IF distributionVersion = V_24 THEN fedora_24
            ELSE unknown_version
      [] distributionName = N_opensuse ->
            IF StartsWith(distributionVersion, <<"1","3",".">>) THEN opensuse_13_2
            ELSE IF StartsWith(distributionVersion, <<"4","2",".">>) THEN opensuse_42_1
            ELSE unknown_version
      [] distributionName = N_rhel -> rhel_7
      [] distributionName = N_debian -> debian_8
      [] OTHER -> unknown_distribution

\* a slip: the fuzzy table is left out
getRuntimeIdHelper_ExactOnly(distributionName, distributionVersion) ==
    getExactRuntimeId(distributionName, distributionVersion)

getRuntimeIdHelper(distributionName, distributionVersion) ==
    LET runtimeId == getExactRuntimeId(distributionName, distributionVersion)
    IN  IF runtimeId # unknown_distribution THEN runtimeId
        ELSE CASE distributionName \in {N_Zorin_OS, N_zorin} ->
                    IF distributionVersion = V_12 THEN ubuntu_16_04
                    ELSE unknown_version
               [] distributionName \in {N_elementary, N_elementary_OS} ->
                    IF StartsWith(distributionVersion, <<"0",".","3">>) THEN ubuntu_14_04
                    ELSE IF StartsWith(distributionVersion, <<"0",".","4">>) THEN ubuntu_16_04
                    ELSE unknown_version
               [] distributionName = N_galliumos ->
                    IF \/ StartsWith(distributionVersion, <<"2",".","0">>)
                       \/ StartsWith(distributionVersion, <<"2",".","1">>)
                    THEN ubuntu_16_04
                    ELSE unknown_version
               [] OTHER -> unknown_distribution

---------------------------------------------------------------------------
(* PlatformInformation.getRuntimeId and the constructor *)

\* ILinuxRuntimeIdFallback: no provider (null), one whose getFallbackLinuxRuntimeId
\* returns a value (NullRid and "" are the falsy ones), one whose call throws
NoFallback == [kind |-> "none"]
FallbackReturning(v) == [kind |-> "returns", value |-> v]
FallbackThrowing == [kind |-> "throws"]

Truthy(v) == v # NullRid /\ v # ""

IsSentinel(runtimeId) == runtimeId \in {unknown_distribution, unknown_version}

\* the outcome of a call of getRuntimeId: the value returned or an exception, with
\* the number of calls of the fallback provider and the names getRuntimeIdHelper
\* was called with, in call order
Returned(v, fallbackCalls, helperCalls) ==
    [threw |-> FALSE, value |-> v, fallbackCalls |-> fallbackCalls,
     helperCalls |-> helperCalls]
Threw(fallbackCalls, helperCalls) ==
    [threw |-> TRUE, value |-> NullRid, fallbackCalls |-> fallbackCalls,
     helperCalls |-> helperCalls]

\* a slip: the loop goes on past an ancestor whose version is not recognized
RECURSIVE IdLikeLoop_SkipsUnknownVersion(_, _, _)
IdLikeLoop_SkipsUnknownVersion(idLike, version, i) ==
    LET runtimeId == getRuntimeIdHelper(idLike[i], version)
    IN  IF ~IsSentinel(runtimeId) \/ i = Len(idLike)
        THEN [runtimeId |-> runtimeId, tried |-> <<idLike[i]>>]
        ELSE LET rest == IdLikeLoop_SkipsUnknownVersion(idLike, version, i + 1)
             IN  [runtimeId |-> rest.runtimeId, tried |-> <<idLike[i]>> \o rest.tried]

\* the loop over distribution.idLike from index i on
RECURSIVE IdLikeLoop(_, _, _)
IdLikeLoop(idLike, version, i) ==
    LET runtimeId == getRuntimeIdHelper(idLike[i], version)
    IN  IF runtimeId # unknown_distribution \/ i = Len(idLike)
        THEN [runtimeId |-> runtimeId, tried |-> <<idLike[i]>>]
        ELSE LET rest == IdLikeLoop(idLike, version, i + 1)
             IN  [runtimeId |-> rest.runtimeId, tried |-> <<idLike[i]>> \o rest.tried]

\* a slip: the provider is asked only about an unrecognized distribution
ConsultsFallback_UnknownDistributionOnly(exact, linuxFallbackRuntimeId) ==
    exact = unknown_distribution /\ linuxFallbackRuntimeId # NoFallback

\* should the provider be asked, given the exact lookup's result
ConsultsFallback(exact, linuxFallbackRuntimeId) ==
    IsSentinel(exact) /\ linuxFallbackRuntimeId # NoFallback

\* the runtime id after the provider's answer
AdoptFallback(exact, fallbackRuntimeValue) ==
    IF Truthy(fallbackRuntimeValue) THEN fallbackRuntimeValue ELSE exact

\* a slip: the fuzzy table is tried after an unrecognized version too
TriesFuzzy_AnySentinel(runtimeId) == IsSentinel(runtimeId)

\* the condition of the retry with the fuzzy table
TriesFuzzy(runtimeId) == runtimeId = unknown_distribution

\* the condition of the loop over the ID_LIKE ancestors
TriesIdLike(runtimeId, idLike) ==
    runtimeId = unknown_distribution /\ idLike # NullArr /\ Len(idLike) > 0

\* a slip: only one of the two sentinels is kept from the caller
IsSupportedRuntimeId_UnknownVersionLeaks(runtimeId) ==
    runtimeId # unknown_distribution

\* the condition of the final return
IsSupportedRuntimeId(runtimeId) ==
    runtimeId # unknown_distribution /\ runtimeId # unknown_version

\* case 'linux' with architecture x86_64 and a distribution object
getLinuxRuntimeId(distribution, linuxFallbackRuntimeId) ==
    LET exact == getExactRuntimeId(distribution.name, distribution.version)
        consult == ConsultsFallback(exact, linuxFallbackRuntimeId)
        asked == IF consult THEN 1 ELSE 0
    IN  IF consult /\ linuxFallbackRuntimeId = FallbackThrowing
        THEN Threw(asked, <<>>)
        ELSE
        LET afterFallback == IF consult
                             THEN AdoptFallback(exact, linuxFallbackRuntimeId.value)
                             ELSE exact
            fuzzy == TriesFuzzy(afterFallback)
            afterFuzzy == IF fuzzy
                          THEN getRuntimeIdHelper(distribution.name, distribution.version)
                          ELSE afterFallback
            ancestors ==
                IF TriesIdLike(afterFuzzy, distribution.idLike)
                THEN IdLikeLoop(distribution.idLike, distribution.version, 1)
                ELSE [runtimeId |-> afterFuzzy, tried |-> <<>>]
            helperCalls == (IF fuzzy THEN <<distribution.name>> ELSE <<>>)
                           \o ancestors.tried
        IN  IF IsSupportedRuntimeId(ancestors.runtimeId)
            THEN Returned(ancestors.runtimeId, asked, helperCalls)
            ELSE Threw(asked, helperCalls)

getRuntimeId(platform, architecture, distribution, linuxFallbackRuntimeId) ==
    CASE platform = "win32" ->
            IF architecture = A_x86 THEN Returned("win7-x86", 0, <<>>)
            ELSE IF architecture = A_x86_64 THEN Returned("win7-x64", 0, <<>>)
            ELSE Threw(0, <<>>)
      [] platform = "darwin" ->
            IF architecture = A_x86_64 THEN Returned("osx.10.11-x64", 0, <<>>)
            ELSE Threw(0, <<>>)
      [] platform = "linux" ->
            \* reading distribution.name of a null distribution is a TypeError
            IF architecture = A_x86_64 /\ distribution # NullDist
            THEN getLinuxRuntimeId(distribution, linuxFallbackRuntimeId)
            ELSE Threw(0, <<>>)
      [] OTHER -> Threw(0, <<>>)

\* a constructor call that ended in an exception
ConstructionFailed == [failed |-> TRUE]

\* a slip: the constructor without its try/catch
PlatformInformation_NoCatch(platform, architecture, distribution, linuxFallbackRuntimeId) ==
    LET outcome == getRuntimeId(platform, architecture, distribution,
                                linuxFallbackRuntimeId)
    IN  IF outcome.threw THEN ConstructionFailed
        ELSE [platform |-> platform, architecture |-> architecture,
              distribution |-> distribution, runtimeId |-> outcome.value]

\* the constructor: the exception of getRuntimeId is caught, runtimeId is null then
PlatformInformation(platform, architecture, distribution, linuxFallbackRuntimeId) ==
    LET outcome == getRuntimeId(platform, architecture, distribution,
                                linuxFallbackRuntimeId)
    IN  [platform |-> platform, architecture |-> architecture,
         distribution |-> distribution,
         runtimeId |-> IF outcome.threw THEN NullRid ELSE outcome.value]

---------------------------------------------------------------------------
(* The os-release texts the parser is run on *)

ReleaseLines ==
    { <<"I","D","=","a">>,
      <<"I","D","=">>,
      <<"I","D","=","\"","\"">>,
      <<"I","D","=","u","n","k","n","o","w","n">>,
      <<" ","I","D","=","\"","b","\"","\r">>,
      KEY_VERSION_ID \o <<"=","\"","1","\"">>,
      KEY_VERSION_ID \o <<"=">>,
      KEY_ID_LIKE \o <<"=","\"","a"," ","b","\"">>,
      KEY_ID_LIKE \o <<"=">>,
      <<"x">> }

\* the lines joined by line feeds
RECURSIVE JoinLines(_)
JoinLines(ls) ==
    IF ls = <<>> THEN <<>>
    ELSE IF Len(ls) = 1 THEN ls[1]
    ELSE ls[1] \o LF \o JoinLines(Tail(ls))

ReleaseTexts ==
    {JoinLines(ls) : ls \in UNION {[1..n -> ReleaseLines] : n \in 0..MaxLines}}

Separators == {LF, CRLF}

NoParse == [dist |-> NullDist, scanned |-> 0]
NoObject == [isNull |-> TRUE]

ParseIdle ==
    /\ releaseInfo = <<>> /\ eol = LF /\ parsePc = "off" /\ parsed = NoParse

NewIdle ==
    /\ argPlatform = "" /\ argArchitecture = NullStr /\ argDistribution = NullDist
    /\ argFallback = NoFallback /\ newPc = "off"
    /\ obj = NoObject /\ resolution = Threw(0, <<>>)

DetectIdle ==
    /\ hostPlatform = "" /\ env = [isNull |-> TRUE] /\ fallbackProvider = NoFallback
    /\ call = "off" /\ archPromise = [state |-> "none"] /\ distPromise = [state |-> "none"]
    /\ readPending = "" /\ reads = <<>> /\ events = <<>> /\ info = NoObject

ParseInit ==
    /\ releaseInfo \in ReleaseTexts
    /\ eol \in Separators
    /\ parsePc = "ready"
    /\ parsed = NoParse
    /\ NewIdle /\ DetectIdle

\* LinuxDistribution.FromReleaseInfo(releaseInfo, eol)
Parse ==
    /\ parsePc = "ready"
    /\ parsed' = ScanReleaseInfo(releaseInfo, eol)
    /\ parsePc' = "done"
    /\ UNCHANGED <<releaseInfo, eol, newVars, detectVars>>

ParseNext == Parse

SpecParse == ParseInit /\ [][ParseNext]_vars

---------------------------------------------------------------------------
(* The arguments the constructor is run on *)

N_arch == <<"a","r","c","h">>
V_18_1 == <<"1","8",".","1">>
V_13_2 == <<"1","3",".","2">>
V_42_1 == <<"4","2",".","1">>
V_0_3_2 == <<"0",".","3",".","2">>
V_0_4 == <<"0",".","4">>
V_2_0 == <<"2",".","0">>
V_2_1 == <<"2",".","1">>
V_9 == <<"9">>
V_18_04 == <<"1","8",".","0","4">>
A_armv7l == <<"a","r","m","v","7","l">>

Platforms == {"win32", "darwin", "linux", "freebsd"}
Architectures == {A_x86, A_x86_64, A_armv7l, NullStr}
Names ==
    {N_ubuntu, N_linuxmint, N_centos, N_ol, N_fedora, N_opensuse, N_rhel, N_debian,
     N_Zorin_OS, N_zorin, N_elementary, N_elementary_OS, N_galliumos, N_arch,
     unknown, <<>>}
Versions ==
    {V_14_04, V_16_04, V_16_10, V_18_1, V_23, V_24, V_13_2, V_42_1, V_12, V_0_3_2,
     V_0_4, V_2_0, V_2_1, V_9, V_18_04, unknown}
Ancestors == {N_ubuntu, N_debian, N_galliumos, N_arch}
IdLikes == {NullArr} \cup UNION {[1..n -> Ancestors] : n \in 0..MaxIdLike}
Distributions ==
    {LinuxDistribution(n, v, l) : n \in Names, v \in Versions, l \in IdLikes}
\* a literal that is no entry of the table
FallbackLiteral == "fallback.1-x64"
FallbackValues ==
    {NullRid, "", FallbackLiteral, ubuntu_16_04, unknown_distribution, unknown_version}
Fallbacks ==
    {NoFallback, FallbackThrowing} \cup {FallbackReturning(v) : v \in FallbackValues}

\* off Linux the code never reads the distribution: a few of them stand for all
OtherDistributions ==
    {NullDist, LinuxDistribution(N_ubuntu, V_16_04, NullArr),
     LinuxDistribution(N_arch, unknown, <<N_debian>>)}

NewInit ==
    /\ argPlatform \in Platforms
    /\ argArchitecture \in Architectures
    /\ argDistribution \in
          IF argPlatform = "linux" THEN Distributions \cup {NullDist}
          ELSE OtherDistributions
    /\ argFallback \in Fallbacks
    /\ newPc = "ready"
    /\ obj = NoObject
    /\ resolution = Threw(0, <<>>)
    /\ ParseIdle /\ DetectIdle

\* new PlatformInformation(platform, architecture, distribution, linuxFallbackRuntimeId)
New ==
    /\ newPc = "ready"
    /\ obj' = PlatformInformation(argPlatform, argArchitecture, argDistribution,
                                  argFallback)
    /\ resolution' = getRuntimeId(argPlatform, argArchitecture, argDistribution,
                                  argFallback)
    /\ newPc' = "done"
    /\ UNCHANGED <<argPlatform, argArchitecture, argDistribution, argFallback,
                   parseVars, detectVars>>

NewNext == New

SpecNew == NewInit /\ [][NewNext]_vars

---------------------------------------------------------------------------
(* PlatformInformation.GetCurrent and LinuxDistribution.GetCurrent *)

ETC_OS_RELEASE == "/etc/os-release"
USR_LIB_OS_RELEASE == "/usr/lib/os-release"

\* os.EOL where the os-release files are read (Linux)
OsEOL == LF

Pending == [state |-> "pending"]
Resolved(v) == [state |-> "resolved", value |-> v]
Rejected == [state |-> "rejected"]

A_AMD64 == <<"A","M","D","6","4">>

\* process.env.PROCESSOR_ARCHITECTURE and PROCESSOR_ARCHITEW6432 (NullStr: undefined)
Environments ==
    [PROCESSOR_ARCHITECTURE : {A_x86, A_AMD64},
     PROCESSOR_ARCHITEW6432 : {NullStr, A_AMD64}]

\* what `uname -m` may print
UnameOutputs ==
    {A_x86_64 \o LF, A_armv7l \o LF, <<>>}

\* util.execChildProcess('uname -m'): the promise resolves with the command's
\* output or rejects
ExecChildProcessOutcomes ==
    {[ok |-> TRUE, stdout |-> o] : o \in UnameOutputs} \cup {[ok |-> FALSE]}

\* the texts fs.readFile may hand to its callback when it does not fail
FileTexts ==
    { KEY_ID \o <<"=">> \o N_ubuntu \o LF
        \o KEY_VERSION_ID \o <<"=","\"">> \o V_16_04 \o <<"\"">> \o LF,
      KEY_ID \o <<"=">> \o N_arch \o LF
        \o KEY_ID_LIKE \o <<"=">> \o N_debian \o LF,
      <<>> }

GetWindowsArchitecture(e) ==
    IF e.PROCESSOR_ARCHITECTURE = A_x86 /\ e.PROCESSOR_ARCHITEW6432 = NullStr
    THEN A_x86 ELSE A_x86_64

\* the promise GetUnixArchitecture returns, once execChildProcess has settled
GetUnixArchitecture(outcome) ==
    IF ~outcome.ok THEN Rejected
    ELSE IF outcome.stdout # <<>> THEN Resolved(Trim(outcome.stdout))
    ELSE Resolved(NullStr)

DetectInit ==
    /\ hostPlatform \in Platforms
    /\ env \in Environments
    /\ fallbackProvider \in {NoFallback, FallbackReturning(FallbackLiteral)}
    /\ call = "idle"
    /\ archPromise = [state |-> "none"]
    /\ distPromise = [state |-> "none"]
    /\ readPending = ""
    /\ reads = <<>>
    /\ events = <<>>
    /\ info = NoObject
    /\ ParseIdle /\ NewIdle

\* the synchronous part of PlatformInformation.GetCurrent: the switch on
\* os.platform() creates the two promises, or throws
GetCurrent ==
    /\ call = "idle"
    /\ CASE hostPlatform = "win32" ->
              /\ archPromise' = Resolved(GetWindowsArchitecture(env))
              /\ distPromise' = Resolved(NullDist)
              /\ readPending' = ""
              /\ events' = <<"arch", "dist">>
              /\ call' = "pending"
         [] hostPlatform = "darwin" ->
              /\ archPromise' = Pending
              /\ distPromise' = Resolved(NullDist)
              /\ readPending' = ""
              /\ events' = <<"dist">>
              /\ call' = "pending"
         [] hostPlatform = "linux" ->
              /\ archPromise' = Pending
              /\ distPromise' = Pending
              /\ readPending' = ETC_OS_RELEASE
              /\ events' = <<>>
              /\ call' = "pending"
         [] OTHER ->
              /\ call' = "threw"
              /\ UNCHANGED <<archPromise, distPromise, readPending, events>>
    /\ UNCHANGED <<hostPlatform, env, fallbackProvider, reads, info, parseVars, newVars>>

\* `uname -m` has ended: the promise of GetUnixArchitecture settles
UnameSettles ==
    /\ archPromise = Pending
    /\ \E outcome \in ExecChildProcessOutcomes :
          archPromise' = GetUnixArchitecture(outcome)
    /\ events' = Append(events, "arch")
    /\ UNCHANGED <<hostPlatform, env, fallbackProvider, call, distPromise, readPending,
                   reads, info, parseVars, newVars>>

\* FromFilePath: fs.readFile calls back with the text, which is parsed
ReadFileSucceeds ==
    /\ readPending # ""
    /\ \E t \in FileTexts :
          /\ reads' = Append(reads, [path |-> readPending, ok |-> TRUE, data |-> t])
          /\ distPromise' = Resolved(FromReleaseInfo(t, OsEOL))
    /\ readPending' = ""
    /\ events' = Append(events, "dist")
    /\ UNCHANGED <<hostPlatform, env, fallbackProvider, call, archPromise, info,
                   parseVars, newVars>>

\* a slip: the second catch is missing, a failure of the second read rejects
ReadFileFails_SingleCatch ==
    /\ readPending # ""
    /\ reads' = Append(reads, [path |-> readPending, ok |-> FALSE, data |-> <<>>])
    /\ IF readPending = ETC_OS_RELEASE
       THEN /\ readPending' = USR_LIB_OS_RELEASE
            /\ UNCHANGED <<distPromise, events>>
       ELSE /\ readPending' = ""
            /\ distPromise' = Rejected
            /\ events' = Append(events, "dist")
    /\ UNCHANGED <<hostPlatform, env, fallbackProvider, call, archPromise, info,
                   parseVars, newVars>>

\* FromFilePath: fs.readFile calls back with an error; the first catch of
\* LinuxDistribution.GetCurrent reads the second path, the second catch resolves
\* with the unknown distribution
ReadFileFails ==
    /\ readPending # ""
    /\ reads' = Append(reads, [path |-> readPending, ok |-> FALSE, data |-> <<>>])
    /\ IF readPending = ETC_OS_RELEASE
       THEN /\ readPending' = USR_LIB_OS_RELEASE
            /\ UNCHANGED <<distPromise, events>>
       ELSE /\ readPending' = ""
            /\ distPromise' = Resolved(LinuxDistribution(unknown, unknown, NullArr))
            /\ events' = Append(events, "dist")
    /\ UNCHANGED <<hostPlatform, env, fallbackProvider, call, archPromise, info,
                   parseVars, newVars>>

\* a slip: the result is constructed as soon as the architecture is known
AllThen_ArchitectureOnly ==
    /\ call = "pending"
    /\ archPromise.state = "resolved"
    /\ info' = PlatformInformation(hostPlatform, archPromise.value,
                                   IF distPromise.state = "resolved"
                                   THEN distPromise.value ELSE NullDist,
                                   fallbackProvider)
    /\ call' = "fulfilled"
    /\ events' = Append(events, "then")
    /\ UNCHANGED <<hostPlatform, env, fallbackProvider, archPromise, distPromise,
                   readPending, reads, parseVars, newVars>>

\* Promise.all has both values: the then-callback constructs the result
AllThen ==
    /\ call = "pending"
    /\ archPromise.state = "resolved"
    /\ distPromise.state = "resolved"
    /\ info' = PlatformInformation(hostPlatform, archPromise.value, distPromise.value,
                                   fallbackProvider)
    /\ call' = "fulfilled"
    /\ events' = Append(events, "then")
    /\ UNCHANGED <<hostPlatform, env, fallbackProvider, archPromise, distPromise,
                   readPending, reads, parseVars, newVars>>

\* Promise.all rejects as soon as one of the two promises has rejected
AllRejects ==
    /\ call = "pending"
    /\ "rejected" \in {archPromise.state, distPromise.state}
    /\ call' = "rejected"
    /\ events' = Append(events, "catch")
    /\ UNCHANGED <<hostPlatform, env, fallbackProvider, archPromise, distPromise,
                   readPending, reads, info, parseVars, newVars>>

DetectNext ==
    \/ GetCurrent
    \/ UnameSettles
    \/ ReadFileSucceeds
    \/ ReadFileFails
    \/ AllThen
    \/ AllRejects

SpecDetect == DetectInit /\ [][DetectNext]_vars

Init == ParseInit \/ NewInit \/ DetectInit
Next == ParseNext \/ NewNext \/ DetectNext
Spec == Init /\ [][Next]_vars

---------------------------------------------------------------------------
(* Claims about the parser, checked under SpecParse *)

ParsedLines == Split(releaseInfo, eol)

\* line i is a key/value line with this key
HasKey(i, key) ==
    LET line == Trim(ParsedLines[i])
    IN  IndexOf(line, <<"=">>) >= 0 /\ KeyOf(line) = key

\* the key has been assigned by one of the lines 1..k
Assigned(k, key) == \E i \in 1..k : HasKey(i, key)

\* the value the last line with this key among the lines 1..k gives
LastValue(k, key) ==
    LET i == CHOOSE i \in 1..k : HasKey(i, key) /\ \A j \in (i + 1)..k : ~HasKey(j, key)
    IN  ValueOf(Trim(ParsedLines[i]))

NameAfter(k) == IF Assigned(k, KEY_ID) THEN LastValue(k, KEY_ID) ELSE unknown
VersionAfter(k) ==
    IF Assigned(k, KEY_VERSION_ID) THEN LastValue(k, KEY_VERSION_ID) ELSE unknown
IdLikeAfter(k) ==
    IF Assigned(k, KEY_ID_LIKE) THEN Split(LastValue(k, KEY_ID_LIKE), <<" ">>) ELSE NullArr

\* the lines after which all three keys have been assigned
AllAssignedAt ==
    {k \in 1..Len(ParsedLines) :
        Assigned(k, KEY_ID) /\ Assigned(k, KEY_VERSION_ID) /\ Assigned(k, KEY_ID_LIKE)}

\* the lines after which name and version differ from "unknown" and ID_LIKE was seen
AllKnownAt ==
    {k \in 1..Len(ParsedLines) :
        NameAfter(k) # unknown /\ VersionAfter(k) # unknown /\ Assigned(k, KEY_ID_LIKE)}

FirstOr(S, default) == IF S = {} THEN default ELSE CHOOSE k \in S : \A j \in S : k <= j

\* the result is what the lines 1..k give, whatever follows them
ResultIsScanOf(k) ==
    parsed.dist = LinuxDistribution(NameAfter(k), VersionAfter(k), IdLikeAfter(k))

\* C4: the name and the version FromReleaseInfo returns are never null and never
\* the empty string: each is a non-empty parsed value or "unknown".
C4_NameVersionNeverEmpty ==
    parsePc = "done" =>
        /\ parsed.dist.name \notin {NullStr, <<>>}
        /\ parsed.dist.version \notin {NullStr, <<>>}

\* C5: the scan stops at the first line after which ID, VERSION_ID and ID_LIKE
\* have all been assigned; the result is what the lines up to there give (a later
\* occurrence of a key overwriting an earlier one), and lines after it are ignored;
\* without such a line the whole text is scanned, an unset name or version is
\* "unknown" and an unset idLike is null.
C5_StopsOnceAllAssigned ==
    parsePc = "done" => ResultIsScanOf(FirstOr(AllAssignedAt, Len(ParsedLines)))

\* The rule the loop's break implements: the scan stops at the first line after
\* which name and version both differ from the text "unknown" and ID_LIKE was seen.
ParserStopsOnceAllKnown ==
    parsePc = "done" =>
        LET k == FirstOr(AllKnownAt, Len(ParsedLines))
        IN  parsed.scanned = k /\ ResultIsScanOf(k)

\* a text in which a key line follows the line where the scan stopped
ParserStoppedEarly ==
    /\ parsePc = "done"
    /\ parsed.scanned < Len(ParsedLines)
    /\ \E i \in (parsed.scanned + 1)..Len(ParsedLines) : HasKey(i, KEY_ID)

---------------------------------------------------------------------------
(* Claims about the constructor and getRuntimeId, checked under SpecNew *)

Constructed == newPc = "done"

OnLinux64 ==
    /\ Constructed
    /\ argPlatform = "linux" /\ argArchitecture = A_x86_64
    /\ argDistribution # NullDist

\* the names of the exact table and of the fuzzy table
ExactNames ==
    {N_ubuntu, N_linuxmint, N_centos, N_ol, N_fedora, N_opensuse, N_rhel, N_debian}
FuzzyNames == {N_Zorin_OS, N_zorin, N_elementary, N_elementary_OS, N_galliumos}

\* the provider is absent or returns nothing
NoFallbackValue ==
    \/ argFallback = NoFallback
    \/ argFallback.kind = "returns" /\ ~Truthy(argFallback.value)

\* getRuntimeId is bound to throw: platform, architecture or distribution unsupported
Unsupported ==
    \/ argPlatform \notin {"win32", "darwin", "linux"}
    \/ argPlatform = "win32" /\ argArchitecture \notin {A_x86, A_x86_64}
    \/ argPlatform \in {"darwin", "linux"} /\ argArchitecture # A_x86_64
    \/ argPlatform = "linux" /\ argDistribution = NullDist
    \/ /\ OnLinux64
       /\ argDistribution.name \notin ExactNames \cup FuzzyNames
       /\ argDistribution.idLike \in {NullArr, <<>>}
       /\ argFallback = NoFallback

\* C1: constructing a PlatformInformation never fails; platform, architecture and
\* distribution hold the arguments, and runtimeId is null whenever getRuntimeId
\* threw, as it does for an unsupported platform or architecture and for an
\* unrecognized Linux distribution with no idLike and no fallback provider.
C1_ConstructorNeverFails ==
    Constructed =>
        /\ obj # ConstructionFailed /\ obj # NoObject
        /\ obj.platform = argPlatform
        /\ obj.architecture = argArchitecture
        /\ obj.distribution = argDistribution
        /\ resolution.threw => obj.runtimeId = NullRid
        /\ Unsupported => resolution.threw /\ obj.runtimeId = NullRid

C1_Witness ==
    /\ OnLinux64
    /\ argDistribution = LinuxDistribution(N_arch, V_16_04, NullArr)
    /\ argFallback = NoFallback
    /\ resolution.threw
    /\ obj = [platform |-> "linux", architecture |-> A_x86_64,
              distribution |-> argDistribution, runtimeId |-> NullRid]

\* the two cases C2 is about
GalliumCase ==
    /\ OnLinux64 /\ argFallback = NoFallback
    /\ argDistribution.name = N_galliumos /\ argDistribution.version = V_2_0
UbuntuLikeCase ==
    /\ OnLinux64 /\ argFallback = NoFallback
    /\ argDistribution.name \notin ExactNames \cup FuzzyNames
    /\ argDistribution.version = V_14_04 /\ argDistribution.idLike = <<N_ubuntu>>

\* C2 as stated: without a fallback provider, galliumos 2.0 and an unknown name
\* with idLike = ["ubuntu"] and version 14.04 both resolve to ubuntu.14.04-x64.
C2_BothResolveToUbuntu1404 ==
    GalliumCase \/ UbuntuLikeCase => obj.runtimeId = ubuntu_14_04

\* C2 as amended: without a fallback provider, galliumos 2.0 resolves to
\* ubuntu.16.04-x64 (through the fuzzy table), and an unknown name with
\* idLike = ["ubuntu"] and version 14.04 resolves to ubuntu.14.04-x64.
C2_GalliumIsUbuntu1604 ==
    /\ GalliumCase => obj.runtimeId = ubuntu_16_04
    /\ UbuntuLikeCase => obj.runtimeId = ubuntu_14_04

C2_Witness ==
    /\ GalliumCase
    /\ resolution.helperCalls = <<N_galliumos>>
    /\ obj.runtimeId = ubuntu_16_04

\* resolution of the same distribution without a fallback provider fails
FailsWithoutFallback ==
    getRuntimeId("linux", A_x86_64, argDistribution, NoFallback).threw

\* the provider is never asked when the exact lookup gives a real runtime id
FallbackOnlyAfterSentinel ==
    OnLinux64 /\ ~IsSentinel(getExactRuntimeId(argDistribution.name,
                                                 argDistribution.version))
        => resolution.fallbackCalls = 0

\* C3 as stated: on (linux, x86_64), if resolution without a provider would fail,
\* then with a provider returning a non-empty literal L the runtime id is L; and
\* the provider is never asked when the exact lookup gives a real runtime id.
C3_FallbackLiteralAdopted ==
    /\ OnLinux64 /\ argFallback.kind = "returns" /\ Truthy(argFallback.value)
            /\ FailsWithoutFallback
        => obj.runtimeId = argFallback.value
    /\ FallbackOnlyAfterSentinel

\* C3 as amended: the same for a literal L that is neither unknown_distribution
\* nor unknown_version.
C3_RealFallbackLiteralAdopted ==
    /\ OnLinux64 /\ argFallback.kind = "returns" /\ Truthy(argFallback.value)
            /\ ~IsSentinel(argFallback.value) /\ FailsWithoutFallback
        => obj.runtimeId = argFallback.value
    /\ FallbackOnlyAfterSentinel

C3_Witness ==
    /\ OnLinux64
    /\ argDistribution = LinuxDistribution(N_ubuntu, V_18_04, NullArr)
    /\ argFallback = FallbackReturning(FallbackLiteral)
    /\ FailsWithoutFallback
    /\ resolution.fallbackCalls = 1
    /\ obj.runtimeId = FallbackLiteral

\* the lookups by name (exact, provider, fuzzy) end in unknown_distribution
NameLookupsUnknown ==
    /\ argDistribution.name \notin ExactNames \cup FuzzyNames
    /\ \/ NoFallbackValue
       \/ argFallback.kind = "returns" /\ argFallback.value = unknown_distribution

\* the index of the ancestor the loop ends with: the first whose fuzzy lookup is
\* not unknown_distribution, the last one if there is none
LastAncestorTried ==
    LET idLike == argDistribution.idLike
        hits == {i \in 1..Len(idLike) :
                    getRuntimeIdHelper(idLike[i], argDistribution.version)
                        # unknown_distribution}
    IN  IF hits = {} THEN Len(idLike) ELSE CHOOSE i \in hits : \A j \in hits : i <= j

\* C8: on (linux, x86_64), when the lookups by name end in unknown_distribution and
\* idLike is not empty, the ancestors are tried in list order with the original
\* version, up to the first whose fuzzy lookup is not unknown_distribution; later
\* ancestors are not consulted, and that ancestor's result is the outcome: the
\* runtime id if it is a real one, a failure if it is unknown_version.
C8_FirstRecognizedAncestorDecides ==
    /\ OnLinux64 /\ NameLookupsUnknown
    /\ argDistribution.idLike # NullArr /\ argDistribution.idLike # <<>>
    => LET k == LastAncestorTried
           r == getRuntimeIdHelper(argDistribution.idLike[k], argDistribution.version)
       IN  /\ resolution.helperCalls
                = <<argDistribution.name>> \o SubSeq(argDistribution.idLike, 1, k)
           /\ obj.runtimeId = IF IsSentinel(r) THEN NullRid ELSE r

C8_Witness ==
    /\ OnLinux64 /\ argFallback = NoFallback
    /\ argDistribution = LinuxDistribution(N_arch, V_9, <<N_ubuntu, N_debian>>)
    /\ resolution.helperCalls = <<N_arch, N_ubuntu>>
    /\ getRuntimeIdHelper(N_debian, V_9) = debian_8
    /\ obj.runtimeId = NullRid

\* C9: on (linux, x86_64) with no provider or one that returns nothing, the fuzzy
\* table and the ancestors are consulted only when the exact lookup of the name
\* gives unknown_distribution; a name of the exact table with an unrecognized
\* version fails whatever idLike holds.
C9_UnknownVersionIsFinal ==
    OnLinux64 /\ NoFallbackValue =>
        /\ resolution.helperCalls # <<>> =>
              argDistribution.name \notin ExactNames
        /\ getExactRuntimeId(argDistribution.name, argDistribution.version)
                = unknown_version
            => /\ resolution.helperCalls = <<>>
               /\ resolution.threw
               /\ obj.runtimeId = NullRid

C9_Witness ==
    /\ OnLinux64 /\ argFallback = NoFallback
    /\ argDistribution = LinuxDistribution(N_ubuntu, V_18_04, <<N_debian>>)
    /\ getRuntimeIdHelper(N_debian, V_18_04) = debian_8
    /\ resolution.helperCalls = <<>>
    /\ obj.runtimeId = NullRid

\* the runtime ids getRuntimeId can name by itself
TableRuntimeIds ==
    {"win7-x86", "win7-x64", "osx.10.11-x64", "centos.7-x64", "debian.8-x64",
     "fedora.23-x64", "fedora.24-x64", "opensuse.13.2-x64", "opensuse.42.1-x64",
     "rhel.7-x64", "ubuntu.14.04-x64", "ubuntu.16.04-x64", "ubuntu.16.10-x64"}

\* C10: the runtimeId of a constructed PlatformInformation is null or a string
\* other than the two sentinels, whatever the provider returns; without a
\* provider it is null or one of the thirteen literals of the code.
C10_SentinelsNeverLeak ==
    Constructed =>
        /\ obj.runtimeId = NullRid \/ ~IsSentinel(obj.runtimeId)
        /\ argFallback = NoFallback => obj.runtimeId \in TableRuntimeIds \cup {NullRid}

C10_Witness ==
    /\ OnLinux64
    /\ argDistribution = LinuxDistribution(N_ubuntu, V_18_04, <<N_debian>>)
    /\ argFallback = FallbackReturning(unknown_version)
    /\ resolution.fallbackCalls = 1
    /\ obj.runtimeId = NullRid

---------------------------------------------------------------------------
(* Claims about the detection, checked under SpecDetect *)

ReadFailed(path) == [path |-> path, ok |-> FALSE, data |-> <<>>]

\* C6: LinuxDistribution.GetCurrent never fails and probes in a fixed order:
\* /usr/lib/os-release is read only after the read of /etc/os-release has failed;
\* a read that succeeds ends the probing and its parsed text is the result; if
\* both reads fail the result is the distribution (unknown, unknown), no idLike.
C6_ProbesInOrderNeverFails ==
    /\ distPromise.state # "rejected"
    /\ Len(reads) <= 2
    /\ reads # <<>> => reads[1].path = ETC_OS_RELEASE
    /\ Len(reads) = 2 =>
          reads[1] = ReadFailed(ETC_OS_RELEASE) /\ reads[2].path = USR_LIB_OS_RELEASE
    /\ hostPlatform = "linux" /\ distPromise = Pending => readPending # ""
    /\ hostPlatform = "linux" /\ distPromise.state = "resolved" =>
          /\ readPending = ""
          /\ reads # <<>>
          /\ LET last == reads[Len(reads)]
             IN  IF last.ok
                 THEN distPromise.value = FromReleaseInfo(last.data, LF)
                 ELSE /\ reads = <<ReadFailed(ETC_OS_RELEASE),
                                   ReadFailed(USR_LIB_OS_RELEASE)>>
                      /\ distPromise.value = [name |-> unknown, version |-> unknown,
                                              idLike |-> NullArr]

C6_Witness ==
    /\ reads = <<ReadFailed(ETC_OS_RELEASE), ReadFailed(USR_LIB_OS_RELEASE)>>
    /\ distPromise = Resolved([name |-> unknown, version |-> unknown,
                               idLike |-> NullArr])

IndexIn(seq, e) == CHOOSE i \in 1..Len(seq) : seq[i] = e
Occurs(seq, e) == \E i \in 1..Len(seq) : seq[i] = e

\* C7: in PlatformInformation.GetCurrent the architecture and the distribution
\* detection are both started by the call; the result is constructed only after
\* both have completed, in either order, from their two values; on an unsupported
\* platform, or when `uname -m` fails, the call fails and no PlatformInformation is
\* ever produced, whether or not the distribution detection has succeeded.
C7_JoinBeforeConstruct ==
    /\ call \in {"pending", "fulfilled", "rejected"} =>
          archPromise.state # "none" /\ distPromise.state # "none"
    /\ hostPlatform = "linux" /\ call = "pending" /\ Len(events) = 0 /\ reads = <<>> =>
          archPromise = Pending /\ distPromise = Pending
              /\ readPending = ETC_OS_RELEASE
    /\ (info # NoObject) = (call = "fulfilled")
    /\ info # NoObject =>
          /\ archPromise.state = "resolved" /\ distPromise.state = "resolved"
          /\ Occurs(events, "arch") /\ Occurs(events, "dist")
          /\ IndexIn(events, "arch") < IndexIn(events, "then")
          /\ IndexIn(events, "dist") < IndexIn(events, "then")
          /\ info = PlatformInformation(hostPlatform, archPromise.value,
                                        distPromise.value, fallbackProvider)
    /\ hostPlatform \notin {"win32", "darwin", "linux"} =>
          call \in {"idle", "threw"} /\ info = NoObject
              /\ archPromise.state = "none" /\ distPromise.state = "none"
    /\ archPromise = Rejected =>
          /\ info = NoObject
          /\ call \in {"pending", "rejected"}
          /\ call = "pending" => ENABLED AllRejects

\* the distribution detection completed first, then the architecture detection
C7_Witness ==
    /\ hostPlatform = "linux"
    /\ events = <<"dist", "arch", "then">>
    /\ info # NoObject
    /\ info.architecture = A_x86_64
    /\ info.distribution.name = N_ubuntu
    /\ info.runtimeId = ubuntu_16_04

=============================================================================
